---- MODULE Spec2Model ----
(***************************************************************************)
(* Model of the POST /tts route of src/index.js: validation, readiness     *)
(* check, parameter resolution, the provider call raced against a          *)
(* 30 second timer, result normalisation and response packaging, together  *)
(* with the promise/timer machinery of the JavaScript event loop the       *)
(* handler relies on.                                                      *)
(***************************************************************************)
EXTENDS Integers, Sequences, FiniteSets

(* ---------------------------- program constants ------------------------ *)

DEFAULT_VOICE_ID == "gmnazjXOFoOcWA59sd5m"
DEFAULT_MODEL == "eleven_multilingual_v2"
DEFAULT_OUTPUT_FORMAT == "mp3_44100_128"
MAX_TEXT_LENGTH == 3000
TIMEOUT_MS == 30000

(* ------------------------------- bounds -------------------------------- *)

\* one step of the wall clock, in milliseconds
TickMs == 10000
\* the wall clock stops advancing after this many steps
MaxTicks == 3
\* short texts have 0..MaxShortLen UTF-16 code units
MaxShortLen == 1
\* long texts have MAX_TEXT_LENGTH - LenMargin .. MAX_TEXT_LENGTH + LenMargin
LenMargin == 1

(* --------------------------- JavaScript values ------------------------- *)

Undefined == [t |-> "undefined"]
Null == [t |-> "null"]
\* a string with content s and s.length = n (the content of a request text
\* is opaque to the handler, only its length is read)
Str(s, n) == [t |-> "string", s |-> s, len |-> n]
Num(n) == [t |-> "number", n |-> n]
\* an Error object (or anything else with a .message)
Err(m) == [t |-> "error", message |-> m]
\* an object resolved by the provider: its src and url properties
\* (Undefined when the key is missing), whether it has another own key, and
\* whether JSON.stringify accepts it (a circular object is rejected)
Obj(src, url, extra, ser) ==
    [t |-> "object", src |-> src, url |-> url, extra |-> extra, serializable |-> ser]

\* ToBoolean(x)
Truthy(x) ==
    CASE x.t = "undefined" -> FALSE
      [] x.t = "null" -> FALSE
      [] x.t = "string" -> x.len > 0
      [] x.t = "number" -> x.n # 0
      [] OTHER -> TRUE

\* a || b
Or(a, b) == IF Truthy(a) THEN a ELSE b

\* x.length, for the values a JSON body can carry in text
LengthOf(x) == IF x.t = "string" THEN Num(x.len) ELSE Undefined

\* a > n, with a the result of LengthOf: undefined > n is false
GreaterThan(a, n) == a.t = "number" /\ a.n > n

\* a destructuring default: used only when the property is undefined
DestructureDefault(v, d) == IF v.t = "undefined" THEN d ELSE v

\* Object.keys(audio), as a set
Keys(audio) ==
    (IF audio.src.t # "undefined" THEN {"src"} ELSE {})
      \cup (IF audio.url.t # "undefined" THEN {"url"} ELSE {})
      \cup (IF audio.extra THEN {"other"} ELSE {})

(* ------------------------------ input sets ----------------------------- *)

TextLens ==
    (0 .. MaxShortLen)
      \cup ((MAX_TEXT_LENGTH - LenMargin) .. (MAX_TEXT_LENGTH + LenMargin))

TextOfLen(n) == Str(IF n = 0 THEN "" ELSE "text", n)

TextValues ==
    {Undefined, Null, Num(0), Num(7)} \cup {TextOfLen(n) : n \in TextLens}

VoiceValues == {Undefined, Null, Str("", 0), Str("customVoice", 11)}
ModelValues == {Undefined, Null, Str("", 0), Str("eleven_flash_v2_5", 17)}
FormatValues == {Undefined, Null, Str("", 0), Str("pcm_16000", 9)}

Bodies ==
    [text : TextValues, voice_id : VoiceValues,
     model : ModelValues, output_format : FormatValues]

LocatorValues == {Undefined, Str("", 0)}
SrcValues == LocatorValues \cup {Str("data:audio/mp3;base64,AAAA", 26)}
UrlValues == LocatorValues \cup {Str("https://cdn/a.mp3", 17)}

\* a circular object has at least one own key besides src and url
AudioValues ==
    {Null} \cup
    {o \in {Obj(s, u, e, ser) : s \in SrcValues, u \in UrlValues,
                                e \in BOOLEAN, ser \in BOOLEAN} :
        o.serializable \/ o.extra}

\* what a rejection or a throw can carry
Reasons == {Err("provider failure"), Undefined}

NoThrow == [t |-> "nothrow"]

(* -------------------------------- state -------------------------------- *)

VARIABLES
    puter,        \* TRUE iff the module-level handle is truthy
    now,          \* Date.now()
    pc,           \* "idle" | "awaiting" | "done": position of the handler
    req,          \* the handler's req.body and locals: text, targetVoice, model, output_format, startTime
    timer,        \* "none" | "armed" | "fired": the setTimeout of timeoutPromise
    timerStart,   \* Date.now() when the timer was armed
    ttsPromise,   \* "none" | "pending" | "fulfilled" | "rejected"
    settled,      \* what ttsPromise settled with
    race,         \* "none" | "pending" | "fulfilled" | "rejected": Promise.race
    raceBy,       \* "none" | "provider" | "timer": which input settled the race
    calls,        \* arguments of every puter.ai.txt2speech invocation
    responses,    \* every response sent on res
    unhandled,    \* rejections of promises that have no handler
    crashed       \* the process died of an unhandled rejection

vars == <<puter, now, pc, req, timer, timerStart, ttsPromise, settled,
          race, raceBy, calls, responses, unhandled, crashed>>

NoReq == [t |-> "none"]
NoResult == [kind |-> "none"]

(* ------------------------------ responses ------------------------------ *)

\* lines 115-122
TextRequiredResponse ==
    [status |-> 400, success |-> FALSE, error |-> "Text is required"]

\* lines 126-131
TextTooLongResponse(text) ==
    [status |-> 400, success |-> FALSE,
     error |-> "Text exceeds 3000 character limit",
     textLength |-> LengthOf(text), maxLength |-> 3000]

\* lines 136-140
NotInitializedResponse ==
    [status |-> 503, success |-> FALSE, error |-> "Puter service not initialized"]

\* variant: the inner catch forgets res.status(500)
TtsErrorResponseNoStatus(ttsError) ==
    [status |-> 200, success |-> FALSE, error |-> "Failed to generate audio",
     details |-> ttsError.message]

\* lines 172-177
TtsErrorResponse(ttsError) ==
    [status |-> 500, success |-> FALSE, error |-> "Failed to generate audio",
     details |-> ttsError.message]

\* lines 183-187
NullAudioResponse ==
    [status |-> 500, success |-> FALSE, error |-> "Audio generation returned null"]

\* lines 195-199
UrlNotFoundResponse(audio) ==
    [status |-> 500, success |-> FALSE, error |-> "Audio URL not found in response",
     audioObject |-> Keys(audio)]

\* lines 208-217
SuccessResponse(audioUrl, r, duration) ==
    [status |-> 200, success |-> TRUE, audioUrl |-> audioUrl,
     usedVoice |-> r.targetVoice, textLength |-> LengthOf(r.text),
     model |-> r.model, outputFormat |-> r.output_format,
     generationTime |-> duration]

\* lines 219-231: the outer catch
InternalErrorResponse(message, duration) ==
    [status |-> 500, success |-> FALSE, error |-> "Internal server error",
     message |-> message, duration |-> duration]

TimeoutError == Err("TTS generation timeout (>30s)")

(* --------------------------- handler fragments ------------------------- *)

\* variant: only a missing text is refused, an empty one passes
TextMissingOnlyUndefined(text) == text.t = "undefined"

\* line 114: if (!text)
TextMissing(text) == ~Truthy(text)

\* variant: >= instead of >
TextTooLongInclusive(text) == GreaterThan(LengthOf(text), MAX_TEXT_LENGTH - 1)

\* line 125: if (text.length > 3000)
TextTooLong(text) == GreaterThan(LengthOf(text), MAX_TEXT_LENGTH)

\* variant: the readiness check is missing
NotInitializedSkipped == FALSE

\* line 135: if (!puter)
NotInitialized == ~puter

\* variant: the voice gets a destructuring default like model and output_format
TargetVoiceVerbatim(voice_id) == DestructureDefault(voice_id, Str(DEFAULT_VOICE_ID, 20))

\* line 144
TargetVoice(voice_id) == Or(voice_id, Str(DEFAULT_VOICE_ID, 20))

\* lines 108, 110: the destructuring defaults
ResolveModel(model) == DestructureDefault(model, Str(DEFAULT_MODEL, 22))
ResolveFormat(fmt) == DestructureDefault(fmt, Str(DEFAULT_OUTPUT_FORMAT, 13))

\* lines 159-164: the arguments of the one provider invocation
ProviderArgs(r) ==
    [text |-> r.text, provider |-> "elevenlabs", voice |-> r.targetVoice,
     model |-> r.model, output_format |-> r.output_format]

\* variant: the invocation is retried once
InvokeTwice(cs, r) == Append(Append(cs, ProviderArgs(r)), ProviderArgs(r))

\* line 159: the invocation is recorded
Invoke(cs, r) == Append(cs, ProviderArgs(r))

\* line 191: audio.src || audio.url || null
AudioUrlOf(audio) == Or(Or(audio.src, audio.url), Null)

\* lines 168-177: the inner catch. Reading .message of undefined or null
\* throws a TypeError, which the outer catch (219-231) turns into a response
CatchTtsError(ttsError, duration) ==
    IF ttsError.t \in {"undefined", "null"}
    THEN InternalErrorResponse("Cannot read properties of undefined", duration)
    ELSE TtsErrorResponse(ttsError)

\* variant: the check of line 193 is missing
AfterAwaitUnchecked(audio, r, duration) ==
    IF ~Truthy(audio) THEN NullAudioResponse
    ELSE SuccessResponse(AudioUrlOf(audio), r, duration)

\* lines 181-217: the handler after the await resolved with audio
AfterAwait(audio, r, duration) ==
    IF ~Truthy(audio) THEN NullAudioResponse
    ELSE LET audioUrl == AudioUrlOf(audio)
         IN  IF ~Truthy(audioUrl)
             THEN IF ~audio.serializable
                  \* line 194: JSON.stringify(audio) throws, outer catch
                  THEN InternalErrorResponse("Converting circular structure to JSON", duration)
                  ELSE UrlNotFoundResponse(audio)
             ELSE SuccessResponse(audioUrl, r, duration)

\* the handler's continuation once Promise.race has settled with result
Continuation(result, r, t) ==
    IF result.kind = "rejected"
    THEN CatchTtsError(result.value, t - r.startTime)
    ELSE AfterAwait(result.value, r, t - r.startTime)

\* variant: the last settlement wins instead of the first
IsPendingOrSettled(p) == p # "none"

\* a promise that is already settled ignores later resolve/reject calls
IsPending(p) == p = "pending"

\* setTimeout(cb, ms) does not run cb before ms have elapsed
TimerDue(start, t) == t - start >= TIMEOUT_MS

(* ------------------------------- actions ------------------------------- *)

\* lines 15-29: the handle is assigned once, at startup; init may throw
Init ==
    /\ puter \in BOOLEAN
    /\ now = 0
    /\ pc = "idle"
    /\ req = NoReq
    /\ timer = "none"
    /\ timerStart = 0
    /\ ttsPromise = "none"
    /\ settled = NoResult
    /\ race = "none"
    /\ raceBy = "none"
    /\ calls = <<>>
    /\ responses = <<>>
    /\ unhandled = 0
    /\ crashed = FALSE

\* res.status(..).json(..)
Send(resp) == responses' = Append(responses, resp)

\* lines 101-166: the handler from its entry to the await, run to completion.
\* thrown is what puter.ai.txt2speech throws when invoked, or NoThrow
PostTts(body, thrown) ==
    /\ ~crashed
    /\ pc = "idle"
    /\ LET r == [body |-> body,
                 text |-> body.text,
                 targetVoice |-> TargetVoice(body.voice_id),
                 model |-> ResolveModel(body.model),
                 output_format |-> ResolveFormat(body.output_format),
                 startTime |-> now]
       IN  /\ req' = r
           /\ IF TextMissing(body.text) \/ TextTooLong(body.text) \/ NotInitialized
              THEN /\ Send(IF TextMissing(body.text) THEN TextRequiredResponse
                           ELSE IF TextTooLong(body.text)
                                THEN TextTooLongResponse(body.text)
                                ELSE NotInitializedResponse)
                   /\ pc' = "done"
                   /\ UNCHANGED <<timer, timerStart, ttsPromise, race, calls>>
              ELSE \* lines 155-157: timeoutPromise is created and its timer armed
                   /\ timer' = "armed"
                   /\ timerStart' = now
                   \* lines 159-164
                   /\ calls' = Invoke(calls, r)
                   /\ IF thrown # NoThrow
                      THEN \* Promise.race is never reached: nothing subscribes
                           \* to timeoutPromise; lines 168-177 answer
                           /\ Send(CatchTtsError(thrown, 0))
                           /\ pc' = "done"
                           /\ UNCHANGED <<ttsPromise, race>>
                      ELSE \* line 166: the handler suspends on the race
                           /\ ttsPromise' = "pending"
                           /\ race' = "pending"
                           /\ pc' = "awaiting"
                           /\ UNCHANGED responses
    /\ UNCHANGED <<puter, now, settled, raceBy, unhandled, crashed>>

\* the provider's promise settles with result; when the race is still
\* pending it takes the result and the handler resumes (lines 166-217) in the
\* same turn of the event loop
ProviderSettle(result) ==
    /\ ~crashed
    /\ IsPending(ttsPromise)
    /\ ttsPromise' = result.kind
    /\ settled' = result
    /\ IF IsPending(race)
       THEN /\ race' = result.kind
            /\ raceBy' = "provider"
            /\ Send(Continuation(result, req, now))
            /\ pc' = "done"
       ELSE UNCHANGED <<race, raceBy, responses, pc>>
    /\ UNCHANGED <<puter, now, req, timer, timerStart, calls, unhandled, crashed>>

\* line 156: the timer callback rejects timeoutPromise
TimerFire ==
    /\ ~crashed
    /\ timer = "armed"
    /\ TimerDue(timerStart, now)
    /\ timer' = "fired"
    /\ IF race = "none"
       THEN \* timeoutPromise has no handler: unhandled rejection, which
            \* ends a Node process that installs no unhandledRejection hook
            /\ unhandled' = unhandled + 1
            /\ crashed' = TRUE
            /\ UNCHANGED <<race, raceBy, responses, pc>>
       ELSE IF IsPending(race)
            THEN /\ race' = "rejected"
                 /\ raceBy' = "timer"
                 /\ Send(Continuation([kind |-> "rejected", value |-> TimeoutError],
                                      req, now))
                 /\ pc' = "done"
                 /\ UNCHANGED <<unhandled, crashed>>
            ELSE UNCHANGED <<race, raceBy, responses, pc, unhandled, crashed>>
    /\ UNCHANGED <<puter, now, req, timerStart, ttsPromise, settled, calls>>

\* wall-clock time passes
Tick ==
    /\ ~crashed
    /\ now < MaxTicks * TickMs
    /\ now' = now + TickMs
    /\ UNCHANGED <<puter, pc, req, timer, timerStart, ttsPromise, settled,
                   race, raceBy, calls, responses, unhandled, crashed>>

Results ==
    {[kind |-> "fulfilled", value |-> v] : v \in AudioValues}
      \cup {[kind |-> "rejected", value |-> e] : e \in Reasons}

Next ==
    \/ \E body \in Bodies, thrown \in Reasons \cup {NoThrow} : PostTts(body, thrown)
    \/ \E result \in Results : ProviderSettle(result)
    \/ TimerFire
    \/ Tick

Spec == Init /\ [][Next]_vars

(* ------------------------------ properties ----------------------------- *)

Handled == pc # "idle"
Body == req.body
Omitted(v) == v.t = "undefined"
\* a text that passes lines 114 and 125: a string of 1..3000 code units, or
\* a non-zero number (which has no length)
ValidText(text) ==
    \/ text.t = "string" /\ text.len >= 1 /\ text.len <= 3000
    \/ text.t = "number" /\ text.n # 0
NonEmptyString(v) == v.t = "string" /\ v.s # "" /\ v.len > 0
DefaultVoice == Str("gmnazjXOFoOcWA59sd5m", 20)
DefaultModel == Str("eleven_multilingual_v2", 22)
DefaultFormat == Str("mp3_44100_128", 13)
TimeoutMessage == "TTS generation timeout (>30s)"
IsTimeoutFailure(resp) ==
    /\ resp.status = 500
    /\ resp.success = FALSE
    /\ resp.error = "Failed to generate audio"
    /\ resp.details = TimeoutMessage
Succeeded(resp) == resp.success = TRUE
FailedWith(resp, e) == resp.success = FALSE /\ resp.error = e

\* C1: whatever the provider does (resolve, reject, throw when invoked, never
\* settle), every failure is answered with success:false, no rejection is
\* left without a handler and the process never crashes.
C1_NoUncaughtFault ==
    /\ \A i \in 1 .. Len(responses) :
          responses[i].status # 200 => responses[i].success = FALSE
    /\ unhandled = 0
    /\ ~crashed

\* C2: when the timer expires before the provider call settles, the one
\* response is the Timeout failure (500, success:false), and it stays the
\* only response whatever the provider delivers afterwards.
C2_TimeoutWins ==
    raceBy = "timer" =>
        /\ Len(responses) = 1
        /\ IsTimeoutFailure(responses[1])

C2_Witness ==
    /\ raceBy = "timer"
    /\ ttsPromise = "fulfilled"
    /\ settled.value.t = "object"
    /\ NonEmptyString(settled.value.src)
    /\ Len(responses) = 1
    /\ IsTimeoutFailure(responses[1])

\* C3 as stated: an omitted voice_id, model or output_format resolves to the
\* configured default, and any supplied value (empty string and null
\* included) reaches the provider and the success response verbatim.
C3_SuppliedVerbatim ==
    Handled =>
        LET voice == IF Omitted(Body.voice_id) THEN DefaultVoice ELSE Body.voice_id
            model == IF Omitted(Body.model) THEN DefaultModel ELSE Body.model
            fmt == IF Omitted(Body.output_format) THEN DefaultFormat
                   ELSE Body.output_format
        IN  /\ \A i \in 1 .. Len(calls) :
                  /\ calls[i].voice = voice
                  /\ calls[i].model = model
                  /\ calls[i].output_format = fmt
            /\ \A i \in 1 .. Len(responses) :
                  Succeeded(responses[i]) =>
                      /\ responses[i].usedVoice = voice
                      /\ responses[i].model = model
                      /\ responses[i].outputFormat = fmt

\* C3 amended: model and output_format are the default when omitted and the
\* supplied value verbatim otherwise (empty string and null included);
\* voice_id is used verbatim only when it is a non-empty string, and an
\* omitted, null or empty voice_id resolves to the default voice.
C3_ResolvedParameters ==
    Handled =>
        LET voice == IF NonEmptyString(Body.voice_id) THEN Body.voice_id
                     ELSE DefaultVoice
            model == IF Omitted(Body.model) THEN DefaultModel ELSE Body.model
            fmt == IF Omitted(Body.output_format) THEN DefaultFormat
                   ELSE Body.output_format
        IN  /\ \A i \in 1 .. Len(calls) :
                  /\ calls[i].voice = voice
                  /\ calls[i].model = model
                  /\ calls[i].output_format = fmt
            /\ \A i \in 1 .. Len(responses) :
                  Succeeded(responses[i]) =>
                      /\ responses[i].usedVoice = voice
                      /\ responses[i].model = model
                      /\ responses[i].outputFormat = fmt

C3_Witness ==
    /\ Handled
    /\ Body.voice_id = Str("", 0)
    /\ Body.model = Null
    /\ Body.output_format = Str("", 0)
    /\ Len(responses) = 1
    /\ Succeeded(responses[1])
    /\ responses[1].usedVoice = DefaultVoice
    /\ responses[1].model = Null
    /\ calls[1].voice = DefaultVoice

\* C4: a request whose text is absent or empty is answered 400 with
\* success:false and the provider is never called, ready handle or not.
C4_MissingTextRejected ==
    (Handled /\ (Omitted(Body.text) \/ Body.text = Str("", 0))) =>
        /\ Len(responses) = 1
        /\ responses[1].status = 400
        /\ responses[1].success = FALSE
        /\ responses[1].error = "Text is required"
        /\ calls = <<>>

C4_Witness ==
    /\ Handled
    /\ puter
    /\ Body.text = Str("", 0)
    /\ Len(responses) = 1
    /\ responses[1].status = 400
    /\ calls = <<>>

\* C5: a text longer than 3000 is answered 400 with its actual length and
\* the limit 3000 and the provider is not called; a text of exactly 3000 is
\* not refused by the length check (with a ready handle it is forwarded).
C5_LengthLimit ==
    (Handled /\ Body.text.t = "string") =>
        /\ Body.text.len > 3000 =>
              /\ Len(responses) = 1
              /\ responses[1].status = 400
              /\ responses[1].success = FALSE
              /\ responses[1].error = "Text exceeds 3000 character limit"
              /\ responses[1].textLength = Num(Body.text.len)
              /\ responses[1].maxLength = 3000
              /\ calls = <<>>
        /\ Body.text.len = 3000 =>
              /\ \A i \in 1 .. Len(responses) : responses[i].status # 400
              /\ puter => Len(calls) = 1 /\ calls[1].text = Body.text

C5_Witness ==
    /\ Handled
    /\ puter
    /\ Body.text.t = "string"
    /\ Body.text.len = 3001
    /\ Len(responses) = 1
    /\ responses[1].textLength = Num(3001)
    /\ calls = <<>>

\* C6: with a handle that was not initialised at startup, every request
\* with an otherwise valid text is answered 503 with success:false and the
\* provider is never called; no step ever changes the handle.
C6_NotReadyRejected ==
    /\ [](( /\ Handled
            /\ ~puter
            /\ Body.text.t = "string"
            /\ Body.text.len >= 1
            /\ Body.text.len <= 3000 ) =>
              /\ Len(responses) = 1
              /\ responses[1].status = 503
              /\ responses[1].success = FALSE
              /\ calls = <<>>
              /\ timer = "none")
    /\ [][puter' = puter]_vars

C6_Witness ==
    /\ Handled
    /\ ~puter
    /\ Body.text.t = "string"
    /\ Body.text.len = 3000
    /\ Len(responses) = 1
    /\ responses[1].status = 503
    /\ calls = <<>>

\* the locator line 191 is expected to pick
ExpectedLocator(audio) ==
    IF NonEmptyString(audio.src) THEN audio.src
    ELSE IF NonEmptyString(audio.url) THEN audio.url
    ELSE Null
\* the own keys of the provider object
PresentKeys(audio) ==
    {k \in {"src", "url", "other"} :
        \/ k = "src" /\ ~Omitted(audio.src)
        \/ k = "url" /\ ~Omitted(audio.url)
        \/ k = "other" /\ audio.extra}
ProviderObjectWon ==
    /\ raceBy = "provider"
    /\ settled.kind = "fulfilled"
    /\ settled.value.t = "object"

\* C7: a provider object with a non-empty src is answered with audioUrl =
\* src (also when url is present), one with only a non-empty url with
\* audioUrl = url, and one with neither (or both empty) is answered 500
\* "Audio URL not found" listing exactly the keys the object has.
C7_LocatorLookup ==
    ProviderObjectWon =>
        /\ Len(responses) = 1
        /\ IF ExpectedLocator(settled.value) = Null
           THEN /\ responses[1].status = 500
                /\ responses[1].success = FALSE
                /\ responses[1].error = "Audio URL not found in response"
                /\ responses[1].audioObject = PresentKeys(settled.value)
           ELSE /\ Succeeded(responses[1])
                /\ responses[1].audioUrl = ExpectedLocator(settled.value)

\* The same lookup for the provider objects JSON.stringify accepts.
C7_LocatorLookupSerializable ==
    (ProviderObjectWon /\ settled.value.serializable) => C7_LocatorLookup

\* C8: a request that passes validation and readiness invokes the provider
\* exactly once, any other request never; no later step (rejection,
\* timeout, malformed result) adds an invocation.
C8_OneProviderCall ==
    /\ Len(calls) <= 1
    /\ Handled =>
          IF ValidText(Body.text) /\ puter THEN Len(calls) = 1 ELSE Len(calls) = 0

C8_Witness ==
    /\ Handled
    /\ puter
    /\ ValidText(Body.text)
    /\ raceBy = "provider"
    /\ settled.kind = "rejected"
    /\ timer = "fired"
    /\ Len(calls) = 1

\* C9: a success response carries a non-empty audioUrl that is the src or
\* the url of the object the provider resolved with, and the provider
\* settled the race; none is sent after null, a rejection or a lost race.
C9_SuccessHasLocator ==
    \A i \in 1 .. Len(responses) :
        Succeeded(responses[i]) =>
            /\ NonEmptyString(responses[i].audioUrl)
            /\ raceBy = "provider"
            /\ settled.kind = "fulfilled"
            /\ settled.value.t = "object"
            /\ responses[i].audioUrl \in {settled.value.src, settled.value.url}

C9_Witness ==
    /\ Len(responses) = 1
    /\ Succeeded(responses[1])
    /\ Omitted(settled.value.src)
    /\ responses[1].audioUrl = settled.value.url

\* C10: at most one response is ever sent and the first of provider and
\* timer to settle decides it: after the provider settled first, the timer
\* firing later adds no response and the answer is not the Timeout failure;
\* after the timer fired first the answer is the Timeout failure.
C10_FirstSettlementDecides ==
    /\ Len(responses) <= 1
    /\ raceBy # "none" => Len(responses) = 1
    /\ raceBy = "timer" => IsTimeoutFailure(responses[1])
    /\ raceBy = "provider" =>
          /\ settled.kind = "rejected" /\ settled.value.t = "error" =>
                responses[1].details = settled.value.message
          /\ settled.kind = "fulfilled" =>
                ~FailedWith(responses[1], "Failed to generate audio")
          /\ settled.kind = "fulfilled" /\ settled.value.t = "object"
               /\ ExpectedLocator(settled.value) # Null =>
                Succeeded(responses[1])

C10_Witness ==
    /\ raceBy = "provider"
    /\ settled.kind = "fulfilled"
    /\ timer = "fired"
    /\ Len(responses) = 1
    /\ Succeeded(responses[1])

====
